---- MODULE Spec2Model ----
(***************************************************************************)
(* Rating-state reconciliation and annotation export of the call rating    *)
(* dashboard (src/src/App.jsx).  The React component is modelled as a      *)
(* state machine: the state hooks are variables, every effect, event       *)
(* handler and asynchronous completion is an action.                       *)
(*                                                                         *)
(* Scheduling.  A state update made inside a discrete DOM event (click,    *)
(* change) is rendered before the next event is handled, so the handlers   *)
(* of such events end with the re-render and its effects.  An update made  *)
(* from a promise continuation or from a mount effect is only enqueued;    *)
(* its re-render is a step of its own (Render) that other steps may        *)
(* precede.  Closures (handleRatingChange, the save effect) read the       *)
(* values of the last render, kept in "rendered".                          *)
(***************************************************************************)
EXTENDS Integers, Sequences, FiniteSets, TLC

VARIABLES
    calls,              \* useState calls: <<>> until transcripts.json loads
    selectedCallId,     \* useState selectedCallId ("" is null)
    activeRatingTarget, \* useState activeRatingTarget: <<>> is null, else <<callId, idx>>
    ratings,            \* useState ratings, all enqueued updaters applied
    rendered,           \* what the closures of the last render captured
    dirty,              \* an update is enqueued and not yet rendered
    mounted,            \* the mount effects have run
    transcriptFetch,    \* "idle" | "pending" | "done"
    ratingsFetch,       \* "idle" | "pending" | "merged" | "failed"
    cache,              \* localStorage slot RATINGS_STORAGE_KEY
    remoteDB,           \* table call_ratings
    inflight,           \* upsert requests dispatched and not yet answered
    budget,             \* what is left of the bounds (edits, failures)
    hist,               \* history of the session, read only by the properties
    download,           \* the file the last export click produced, <<>> if none
    completedCalls,     \* useState completedCalls, all enqueued updaters applied
    completedCache      \* localStorage slot COMPLETED_CALLS_KEY

vars == <<calls, selectedCallId, activeRatingTarget, ratings, rendered, dirty,
          mounted, transcriptFetch, ratingsFetch, cache,
          remoteDB, inflight, budget, hist, download,
          completedCalls, completedCache>>

(***************************************************************************)
(* Bounds of the model.                                                    *)
(***************************************************************************)
MaxEdits == 2
MaxFailures == 1
MaxToggles == 2

(***************************************************************************)
(* JSON values.  A field of a rating, a column of a remote row and a       *)
(* value handed to a handler is a JavaScript value; typeof and truthiness  *)
(* decide what the code does with it: a value is its type and, for a       *)
(* number or a string, its content.  Text is a sequence of characters.     *)
(***************************************************************************)
Num(n) == <<"number", n>>
Str(s) == <<"string", s>>
Null == <<"null">>

\* typeof v
TypeOf(v) == v[1]

Truthy(v) ==
    CASE TypeOf(v) = "number" -> v[2] # 0
      [] TypeOf(v) = "string" -> v[2] # <<>>
      [] OTHER -> FALSE

\* x || 0
OrZero(v) == IF Truthy(v) THEN v ELSE Num(0)

\* x || ""
OrEmptyString(v) == IF Truthy(v) THEN v ELSE Str(<<>>)

IsSpace(ch) == ch = " "

RECURSIVE TrimStart(_)
TrimStart(s) ==
    IF s # <<>> /\ IsSpace(Head(s)) THEN TrimStart(Tail(s)) ELSE s

RECURSIVE TrimEnd(_)
TrimEnd(s) ==
    IF s # <<>> /\ IsSpace(s[Len(s)]) THEN TrimEnd(SubSeq(s, 1, Len(s) - 1)) ELSE s

\* String.prototype.trim
Trim(s) == TrimEnd(TrimStart(s))

(***************************************************************************)
(* Program constants.                                                      *)
(***************************************************************************)
USER_ID == "demo-user"

METRICS == {"codeSwitch", "colloquialness", "emotionalIntelligence", "sopAdherence"}

EMPTY_RATING ==
    [codeSwitch |-> Num(0), colloquialness |-> Num(0),
     emotionalIntelligence |-> Num(0), sopAdherence |-> Num(0),
     idealResponse |-> Str(<<>>)]

\* The transcript served as /transcripts.json: call_id and dialogue per call.
\* Turn idx of a call is dialogue[idx + 1].
Transcript ==
    << [call_id |-> "c1",
        dialogue |-> << [author |-> "User", text |-> "hi"],
                        [author |-> "Assistant", text |-> "hello"] >>],
       [call_id |-> "c2",
        dialogue |-> << [author |-> "User", text |-> "bye"] >>] >>

(***************************************************************************)
(* The rating collection { [callId]: { [turnIndex]: rating } } is a        *)
(* function from the call ids present to functions from the turn indexes   *)
(* present to ratings.  {} is the empty function.                          *)
(***************************************************************************)
EmptyObject == <<>>

HasRating(coll, callId, idx) ==
    callId \in DOMAIN coll /\ idx \in DOMAIN coll[callId]

\* ratings[callId]?.[idx] || { ...EMPTY_RATING }
RatingAt(coll, callId, idx) ==
    IF HasRating(coll, callId, idx) THEN coll[callId][idx] ELSE EMPTY_RATING

\* coll[callId] || {}
ForCall(coll, callId) ==
    IF callId \in DOMAIN coll THEN coll[callId] ELSE EmptyObject

\* { ...coll, [callId]: { ...(coll[callId] || {}), [idx]: rating } }
WithRating(coll, callId, idx, rating) ==
    (callId :> ((idx :> rating) @@ ForCall(coll, callId))) @@ coll

(***************************************************************************)
(* The localStorage slot.  kind is what getItem and JSON.parse make of it: *)
(* "absent" (getItem gives null), "corrupt" (JSON.parse throws), or the    *)
(* JSON type of the parsed value; val is the parsed value when it is an    *)
(* object or an array (an array is read through its own keys "0", "1").    *)
(***************************************************************************)
Slot(kind, val) == [kind |-> kind, val |-> val]

\* JSON.stringify(ratings), as the text setItem stores
Stringify(coll) == Slot("object", coll)

\* typeof parsed === "object" holds for objects, arrays and null
TypeOfParsed(slot) ==
    IF slot.kind \in {"object", "array", "null"} THEN "object" ELSE slot.kind

\* parsed is truthy: not null (a number or a string sample is a non-zero,
\* non-empty one)
ParsedTruthy(slot) == slot.kind # "null"

\* Effect "Load ratings from localStorage": the value handed to setRatings,
\* or the current state when setRatings is not called.
LoadRatingsFromStorage(slot, current, readOk) ==
    IF ~readOk THEN current                       \* getItem throws: caught
    ELSE IF slot.kind = "absent" THEN current     \* if (raw)
    ELSE IF slot.kind = "corrupt" THEN current    \* JSON.parse throws: caught
    ELSE IF ParsedTruthy(slot) /\ TypeOfParsed(slot) = "object" THEN slot.val
    ELSE current

\* Whether that effect called setRatings
LoadCallsSetRatings(slot, readOk) ==
    /\ readOk
    /\ slot.kind \notin {"absent", "corrupt"}
    /\ ParsedTruthy(slot)
    /\ TypeOfParsed(slot) = "object"

\* Effect "Save ratings to localStorage": setItem may throw (quota exceeded,
\* storage unavailable), which is caught and leaves the slot as it was.
SaveRatingsToStorage(slot, coll, writeOk) ==
    IF writeOk THEN Stringify(coll) ELSE slot

(***************************************************************************)
(* The completion flags: { callId: true }, kept in a slot of their own.    *)
(***************************************************************************)
\* !!completedCalls[callId]
IsCompleted(flags, callId) == callId \in DOMAIN flags /\ flags[callId] = TRUE

\* A toggle that only ever marks a call done
ToggledOn(prev, callId) == (callId :> TRUE) @@ prev

\* setCompletedCalls((prev) => ({ ...prev, [callId]: !prev[callId] }))
Toggled(prev, callId) == (callId :> ~IsCompleted(prev, callId)) @@ prev

\* Effect "Load completed calls from localStorage": the value handed to
\* setCompletedCalls, or the current state when it is not called.
LoadCompletedFromStorage(slot, current, readOk) ==
    IF ~readOk THEN current                       \* getItem throws: caught
    ELSE IF slot.kind = "absent" THEN current     \* if (raw)
    ELSE IF slot.kind = "corrupt" THEN current    \* JSON.parse throws: caught
    ELSE IF ParsedTruthy(slot) /\ TypeOfParsed(slot) = "object" THEN slot.val
    ELSE current

\* Whether that effect called setCompletedCalls
LoadCallsSetCompleted(slot, readOk) ==
    /\ readOk
    /\ slot.kind \notin {"absent", "corrupt"}
    /\ ParsedTruthy(slot)
    /\ TypeOfParsed(slot) = "object"

\* Effect "Save completed calls to localStorage"
SaveCompletedToStorage(slot, flags, writeOk) ==
    IF writeOk THEN Stringify(flags) ELSE slot

(***************************************************************************)
(* Remote rows of table call_ratings.                                      *)
(***************************************************************************)
Row(callId, idx, user, cs, co, ei, sop, ideal) ==
    [call_id |-> callId, turn_index |-> idx, user_id |-> user,
     code_switch |-> cs, colloquialness |-> co, emotional_intelligence |-> ei,
     sop_adherence |-> sop, ideal_response |-> ideal]

SameKey(r, q) ==
    /\ r.call_id = q.call_id
    /\ r.turn_index = q.turn_index
    /\ r.user_id = q.user_id

\* A select without the filter on user_id
SelectRowsOfAll(db, uid) == db

\* .select("*").eq("user_id", uid)
SelectRows(db, uid) == {r \in db : r.user_id = uid}

\* .upsert(row, { onConflict: "call_id,turn_index,user_id" })
UpsertRow(db, row) == {r \in db : ~SameKey(r, row)} \cup {row}

\* The rows of a result set in the order the server returns them
RECURSIVE RowsInOrder(_)
RowsInOrder(rows) ==
    IF rows = {} THEN <<>>
    ELSE LET r == CHOOSE x \in rows : TRUE
         IN <<r>> \o RowsInOrder(rows \ {r})

\* One remote row merged into the entry it names (the object literal of the
\* forEach body): a column that is a number (a string, for the text) wins,
\* otherwise the existing value is kept.
\* A merge in which a value already in the collection beats the row's
MergedRatingExistingFirst(existing, r) ==
    [codeSwitch |->
        IF Truthy(existing.codeSwitch) THEN existing.codeSwitch
        ELSE IF TypeOf(r.code_switch) = "number" THEN r.code_switch ELSE Num(0),
     colloquialness |->
        IF Truthy(existing.colloquialness) THEN existing.colloquialness
        ELSE IF TypeOf(r.colloquialness) = "number" THEN r.colloquialness ELSE Num(0),
     emotionalIntelligence |->
        IF Truthy(existing.emotionalIntelligence) THEN existing.emotionalIntelligence
        ELSE IF TypeOf(r.emotional_intelligence) = "number"
             THEN r.emotional_intelligence ELSE Num(0),
     sopAdherence |->
        IF Truthy(existing.sopAdherence) THEN existing.sopAdherence
        ELSE IF TypeOf(r.sop_adherence) = "number" THEN r.sop_adherence ELSE Num(0),
     idealResponse |->
        IF Truthy(existing.idealResponse) THEN existing.idealResponse
        ELSE IF TypeOf(r.ideal_response) = "string" THEN r.ideal_response ELSE Str(<<>>)]

MergedRating(existing, r) ==
    [codeSwitch |->
        IF TypeOf(r.code_switch) = "number" THEN r.code_switch
        ELSE OrZero(existing.codeSwitch),
     colloquialness |->
        IF TypeOf(r.colloquialness) = "number" THEN r.colloquialness
        ELSE OrZero(existing.colloquialness),
     emotionalIntelligence |->
        IF TypeOf(r.emotional_intelligence) = "number" THEN r.emotional_intelligence
        ELSE OrZero(existing.emotionalIntelligence),
     sopAdherence |->
        IF TypeOf(r.sop_adherence) = "number" THEN r.sop_adherence
        ELSE OrZero(existing.sopAdherence),
     idealResponse |->
        IF TypeOf(r.ideal_response) = "string" THEN r.ideal_response
        ELSE OrEmptyString(existing.idealResponse)]

\* if (!callId || idx == null) return;
RowSkipped(r) == r.call_id = "" \/ r.turn_index < 0

\* data.forEach over the rows, applied to next = { ...prev }
RECURSIVE MergeRows(_, _)
MergeRows(next, data) ==
    IF data = <<>> THEN next
    ELSE LET r == Head(data)
             one == IF RowSkipped(r) THEN next
                    ELSE WithRating(next, r.call_id, r.turn_index,
                                    MergedRating(RatingAt(next, r.call_id, r.turn_index), r))
         IN MergeRows(one, Tail(data))

\* next[callId][idx] = ... assigns into the object prev[callId] when prev has
\* one: the closures of the last render hold that same object and see the
\* assignment.  A call the merge creates is an object of next alone.
SeenByClosures(snapshot, merged) ==
    [c \in DOMAIN snapshot |-> IF c \in DOMAIN merged THEN merged[c] ELSE snapshot[c]]

(***************************************************************************)
(* handleRatingChange                                                      *)
(***************************************************************************)
\* const updated = { ...prevForUtterance, [field]: ... }
Updated(prevForUtterance, field, value) ==
    [prevForUtterance EXCEPT ![field] =
        IF field = "idealResponse" THEN value ELSE OrZero(value)]

\* An upsert that sends the four metrics and leaves the text out
UpsertPayloadWithoutText(callId, idx, updated) ==
    Row(callId, idx, USER_ID,
        OrZero(updated.codeSwitch), OrZero(updated.colloquialness),
        OrZero(updated.emotionalIntelligence), OrZero(updated.sopAdherence),
        Str(<<>>))

\* The row handed to upsert
UpsertPayload(callId, idx, updated) ==
    Row(callId, idx, USER_ID,
        OrZero(updated.codeSwitch), OrZero(updated.colloquialness),
        OrZero(updated.emotionalIntelligence), OrZero(updated.sopAdherence),
        OrEmptyString(updated.idealResponse))

\* A handler that sends the upsert before it calls setRatings
HandlerStepsUpsertFirst == <<"upsert", "setRatings", "render">>

\* The order of the handler's steps: 1) setRatings, 2) the upsert; the
\* re-render that the click or change event ends with runs the save effect.
HandlerSteps == <<"setRatings", "upsert", "render">>

(***************************************************************************)
(* Inputs of the model: what the slot and the table hold when the page     *)
(* opens, and what the reviewer enters.                                    *)
(***************************************************************************)
Rated(cs, co, ideal) ==
    [EMPTY_RATING EXCEPT !.codeSwitch = Num(cs), !.colloquialness = Num(co),
                         !.idealResponse = Str(ideal)]

\* The slot when the page opens: never written, or the collection an earlier
\* session left (a rated Assistant turn, a record at a User turn, an empty
\* record).
InitialSlots ==
    { Slot("absent", EmptyObject),
      Stringify(("c1" :> ((0 :> Rated(0, 0, <<"g">>)) @@ (1 :> Rated(3, 2, <<>>))))
                @@ ("c2" :> (0 :> EMPTY_RATING))) }

OtherUser == "other-user"

\* The table when the page opens: empty, or rows of this reviewer (one with
\* an out-of-range number and columns that are null, one for a turn the
\* slot has no record of) and a row of another reviewer.
InitialTables ==
    { {},
      { Row("c1", 1, USER_ID, Num(5), Num(9), Null, Num(0), Null),
        Row("c1", 1, OtherUser, Num(1), Num(1), Num(1), Num(1), Str(<<"x">>)),
        Row("c3", 0, USER_ID, Num(2), Num(0), Num(0), Num(0), Str(<<"h">>)) } }

\* What the reviewer enters: a star button sends its metric and 1..5, the
\* textarea sends "idealResponse" and its text.
EditInputs ==
    { <<"codeSwitch", Num(4)>>, <<"colloquialness", Num(5)>>,
      <<"idealResponse", Str(<<"g">>)>> }

(***************************************************************************)
(* The state after construction: the first render, before its effects.     *)
(***************************************************************************)
Snapshot(r, c, s) == [ratings |-> r, calls |-> c, selectedCallId |-> s]

NoEdits == <<>>

NoEdit == <<>>

\* What the properties read.  About the last step only: op, its name; pre,
\* the state before it; edit, the edit it made (the stored rating it found,
\* what the store held when each side effect left, the payload handed to
\* setItem, the requests it sent); data, the rows it merged.  About the
\* session: edits, the last value the reviewer gave each (call, turn, field);
\* cache0, the slot when the page opened.
Hist(op, pre, edit, data, edits, cache0) ==
    [op |-> op, pre |-> pre, edit |-> edit, data |-> data, edits |-> edits,
     cache0 |-> cache0]

Init ==
    /\ calls = <<>>
    /\ selectedCallId = ""
    /\ activeRatingTarget = <<>>
    /\ ratings = EmptyObject
    /\ rendered = Snapshot(EmptyObject, <<>>, "")
    /\ dirty = {}
    /\ mounted = FALSE
    /\ transcriptFetch = "idle"
    /\ ratingsFetch = "idle"
    /\ cache \in InitialSlots
    /\ remoteDB \in InitialTables
    /\ inflight = {}
    /\ budget = [edits |-> MaxEdits, failures |-> MaxFailures, toggles |-> 0]
    /\ hist = Hist("step", <<>>, NoEdit, <<>>, NoEdits, cache)
    /\ download = <<>>
    /\ completedCalls = EmptyObject
    /\ completedCache = Slot("absent", EmptyObject)

\* Outcomes of an operation that may fail, within the bound on failures
Outcomes == IF budget.failures > 0 THEN {TRUE, FALSE} ELSE {TRUE}

Spend(b, ok) == IF ok THEN b ELSE [b EXCEPT !.failures = @ - 1]

\* The state a step of interest to the properties started from
Pre ==
    [ratings |-> ratings, rendered |-> rendered, inflight |-> inflight,
     calls |-> calls, cache |-> cache, remoteDB |-> remoteDB,
     completedCalls |-> completedCalls, completedCache |-> completedCache]

Note(op) ==
    Hist(op, IF op = "step" THEN <<>> ELSE Pre, NoEdit, <<>>, hist.edits, hist.cache0)

(***************************************************************************)
(* Mount: the effects of the first render, in the order of the source.     *)
(***************************************************************************)
\* Load effects that run after the save effects of the first render
SlotAtLoadAfterSave(slot, afterSave) == afterSave

\* The load effects are declared before the save effects, so getItem reads
\* the slot as the page found it, not as the first save leaves it.
SlotAtLoad(slot, afterSave) == slot

MountEffects ==
    /\ ~mounted
    /\ mounted' = TRUE
    /\ transcriptFetch' = "pending"                    \* fetch("/transcripts.json")
    /\ ratingsFetch' = "pending"                       \* loadSharedRatings()
    /\ \E readOk \in Outcomes :
         \* the save effects of the first render write its ratings and its
         \* completedCalls, both {}; the storage takes both writes or neither
         \E writeOk \in (IF readOk THEN Outcomes ELSE {FALSE}) :
           LET saved == SaveRatingsToStorage(cache, rendered.ratings, writeOk)
               savedFlags == SaveCompletedToStorage(completedCache, EmptyObject, writeOk)
               read == SlotAtLoad(cache, saved)
               readFlags == SlotAtLoad(completedCache, savedFlags)
           IN /\ ratings' = LoadRatingsFromStorage(read, ratings, readOk)
              /\ completedCalls' = LoadCompletedFromStorage(readFlags, completedCalls, readOk)
              /\ dirty' = (IF LoadCallsSetRatings(read, readOk) THEN {"ratings"} ELSE {})
                             \cup (IF LoadCallsSetCompleted(readFlags, readOk)
                                   THEN {"completedCalls"} ELSE {})
              /\ cache' = saved
              /\ completedCache' = savedFlags
              /\ budget' = Spend(budget, readOk /\ writeOk)
              /\ hist' = Note("mount")
    /\ UNCHANGED <<download, calls, selectedCallId, activeRatingTarget, rendered,
                   remoteDB, inflight>>

\* The re-render and its effects: the closures capture the current state,
\* and the save effect runs when ratings changed since the last render.
Commit(r, c, s, ratingsChanged, writeOk, flags, flagsChanged, flagsOk) ==
    /\ rendered' = Snapshot(r, c, s)
    /\ dirty' = {}
    /\ cache' = IF ratingsChanged THEN SaveRatingsToStorage(cache, r, writeOk) ELSE cache
    /\ completedCache' = IF flagsChanged
                         THEN SaveCompletedToStorage(completedCache, flags, flagsOk)
                         ELSE completedCache

Render ==
    /\ mounted
    /\ dirty # {}
    /\ \E writeOk \in (IF "ratings" \in dirty THEN Outcomes ELSE {TRUE}),
          flagsOk \in (IF "completedCalls" \in dirty THEN Outcomes ELSE {TRUE}) :
         /\ Commit(ratings, calls, selectedCallId, "ratings" \in dirty, writeOk,
                   completedCalls, "completedCalls" \in dirty, flagsOk)
         /\ budget' = Spend(budget, writeOk /\ flagsOk)
         /\ hist' = Note("step")
    /\ UNCHANGED <<download, completedCalls, calls, selectedCallId, activeRatingTarget, ratings, mounted,
                   transcriptFetch, ratingsFetch, remoteDB,
                   inflight>>

(***************************************************************************)
(* Transcript load and navigation.                                         *)
(***************************************************************************)
CallIds(cs) == {cs[k].call_id : k \in DOMAIN cs}

\* calls.find((c) => c.call_id === id); <<>> is undefined
FindCall(cs, id) ==
    IF \E k \in DOMAIN cs : cs[k].call_id = id
    THEN cs[CHOOSE k \in DOMAIN cs :
                /\ cs[k].call_id = id
                /\ \A j \in DOMAIN cs : cs[j].call_id = id => k <= j]
    ELSE <<>>

TranscriptLoaded ==
    /\ transcriptFetch = "pending"
    /\ transcriptFetch' = "done"
    /\ \/ /\ calls' = Transcript
          /\ selectedCallId' = IF Len(Transcript) > 0 THEN Transcript[1].call_id
                               ELSE selectedCallId
          /\ dirty' = dirty \cup {"calls"}
       \/ UNCHANGED <<calls, selectedCallId, dirty>>      \* .catch: logged
    /\ hist' = Note("step")
    /\ UNCHANGED <<download, completedCalls, completedCache, activeRatingTarget, ratings, rendered, mounted, ratingsFetch,
                   cache, remoteDB, inflight, budget>>

\* A click handler that sets state ends with the re-render of everything
\* enqueued so far.
ClickCommit(sel) ==
    \E writeOk \in (IF "ratings" \in dirty THEN Outcomes ELSE {TRUE}),
       flagsOk \in (IF "completedCalls" \in dirty THEN Outcomes ELSE {TRUE}) :
        /\ Commit(ratings, calls, sel, "ratings" \in dirty, writeOk,
                  completedCalls, "completedCalls" \in dirty, flagsOk)
        /\ budget' = Spend(budget, writeOk /\ flagsOk)
        /\ hist' = Note("step")

\* Sidebar: onClick={() => setSelectedCallId(call.call_id)}
SelectCall(id) ==
    /\ activeRatingTarget = <<>>        \* the dialog's overlay covers the page
    /\ id \in CallIds(rendered.calls)
    /\ id # selectedCallId
    /\ selectedCallId' = id
    /\ ClickCommit(id)
    /\ UNCHANGED <<download, completedCalls, calls, activeRatingTarget, ratings, mounted, transcriptFetch,
                   ratingsFetch, remoteDB, inflight>>

\* A transcript where every turn opens the dialog
isAnyAuthor(utt) == TRUE

\* const isAssistant = utt.author === "Assistant"
isAssistant(utt) == utt.author = "Assistant"

\* Transcript turn: onClick={() => isAssistant && openRatingModal(call_id, idx)}
OpenRatingModal(idx) ==
    /\ LET selectedCall == FindCall(rendered.calls, rendered.selectedCallId)
       IN /\ selectedCall # <<>>
          /\ idx + 1 \in DOMAIN selectedCall.dialogue
          /\ isAssistant(selectedCall.dialogue[idx + 1])
          /\ activeRatingTarget = <<>>  \* the dialog's overlay covers the page
          /\ activeRatingTarget' = <<selectedCall.call_id, idx>>
    /\ ClickCommit(selectedCallId)
    /\ UNCHANGED <<download, completedCalls, calls, selectedCallId, ratings, mounted, transcriptFetch,
                   ratingsFetch, remoteDB, inflight>>

CloseRatingModal ==
    /\ activeRatingTarget # <<>>
    /\ activeRatingTarget' = <<>>
    /\ ClickCommit(selectedCallId)
    /\ UNCHANGED <<download, completedCalls, calls, selectedCallId, ratings, mounted, transcriptFetch,
                   ratingsFetch, remoteDB, inflight>>

(***************************************************************************)
(* handleRatingChange, called by a star button or the textarea of the      *)
(* rating dialog.  Its entry reads the ratings of the last render; its     *)
(* steps run in the order of HandlerSteps, uninterrupted.  A step's state: *)
(* the variables it changes, and what the store held for the edited key    *)
(* when each side effect left (sawUpsert, sawSave).                        *)
(***************************************************************************)
\* A save effect whose failure empties the collection
RatingsLostOnFailedSave(coll, writeOk) == IF writeOk THEN coll ELSE EmptyObject

\* The collection once the save effect has run: its catch only warns
RatingsAfterSave(coll, writeOk) == coll

HandlerStep(st, name, callId, idx, updated, n, writeOk) ==
    CASE name = "setRatings" ->
           \* setRatings((prev) => ({ ...prev, [callId]: { ..., [idx]: updated } }))
           [st EXCEPT !.ratings = WithRating(@, callId, idx, updated),
                      !.dirty = @ \cup {"ratings"}]
      [] name = "upsert" ->
           \* supabase.from("call_ratings").upsert({...}): the request leaves
           [st EXCEPT !.inflight = @ \cup {[n |-> n, row |-> UpsertPayload(callId, idx, updated)]},
                      !.sawUpsert = RatingAt(st.ratings, callId, idx)]
      [] OTHER ->
           \* the re-render the event ends with, and the save effect
           [st EXCEPT !.ratings = IF "ratings" \in st.dirty
                                  THEN RatingsAfterSave(@, writeOk) ELSE @,
                      !.rendered = [@ EXCEPT !.ratings = st.ratings],
                      !.dirty = {},
                      !.cache = IF "ratings" \in st.dirty
                                THEN SaveRatingsToStorage(@, st.ratings, writeOk) ELSE @,
                      !.saved = IF "ratings" \in st.dirty THEN st.ratings ELSE @,
                      !.sawSave = IF "ratings" \in st.dirty
                                  THEN RatingAt(st.ratings, callId, idx) ELSE @]

RECURSIVE RunHandler(_, _, _, _, _, _, _)
RunHandler(st, steps, callId, idx, updated, n, writeOk) ==
    IF steps = <<>> THEN st
    ELSE RunHandler(HandlerStep(st, Head(steps), callId, idx, updated, n, writeOk),
                    Tail(steps), callId, idx, updated, n, writeOk)

HandleRatingChange(field, value) ==
    /\ activeRatingTarget # <<>>
    /\ budget.edits > 0
    /\ \E writeOk \in Outcomes,
          flagsOk \in (IF "completedCalls" \in dirty THEN Outcomes ELSE {TRUE}) :
         LET callId == activeRatingTarget[1]
             idx == activeRatingTarget[2]
             prevForCall == ForCall(rendered.ratings, callId)
             prevForUtterance == IF idx \in DOMAIN prevForCall THEN prevForCall[idx]
                                 ELSE EMPTY_RATING
             updated == Updated(prevForUtterance, field, value)
             st0 == [ratings |-> ratings, dirty |-> dirty, inflight |-> inflight,
                     rendered |-> Snapshot(rendered.ratings, calls, selectedCallId),
                     cache |-> cache, saved |-> EmptyObject,
                     sawUpsert |-> <<>>, sawSave |-> <<>>]
             st == RunHandler(st0, HandlerSteps, callId, idx, updated,
                              MaxEdits - budget.edits, writeOk)
         IN /\ ratings' = st.ratings
            /\ dirty' = st.dirty
            /\ inflight' = st.inflight
            /\ rendered' = st.rendered
            /\ cache' = st.cache
            /\ completedCache' = IF "completedCalls" \in dirty
                                 THEN SaveCompletedToStorage(completedCache, completedCalls,
                                                             flagsOk)
                                 ELSE completedCache
            /\ budget' = [Spend(budget, writeOk /\ flagsOk) EXCEPT !.edits = @ - 1]
            /\ hist' = [Note("edit") EXCEPT
                          !.edits = (<<callId, idx, field>> :> value) @@ @,
                          !.edit = [callId |-> callId, idx |-> idx, field |-> field,
                                    value |-> value,
                                    before |-> RatingAt(ratings, callId, idx),
                                    updated |-> updated,
                                    sawUpsert |-> st.sawUpsert, sawSave |-> st.sawSave,
                                    saved |-> st.saved, wrote |-> writeOk,
                                    prevWrote |-> IF hist.op = "edit"
                                                  THEN <<hist.edit.wrote>> ELSE <<>>,
                                    sent |-> st.inflight \ inflight]]
    /\ UNCHANGED <<download, completedCalls, calls, selectedCallId, activeRatingTarget, mounted,
                   transcriptFetch, ratingsFetch, remoteDB>>

(***************************************************************************)
(* The remote store and loadSharedRatings.                                 *)
(***************************************************************************)
\* What the select resolves to
DataResponse(db) == [kind |-> "data", data |-> RowsInOrder(SelectRows(db, USER_ID))]

FailedResponses == {[kind |-> k, data |-> <<>>] : k \in {"error", "nodata", "throw"}}

\* A loader that makes the fetched rows the whole collection
SharedRatingsReplaced(prev, response) ==
    IF response.kind = "data" THEN MergeRows(EmptyObject, response.data) ELSE prev

\* A loader that empties the collection when it gets no rows
SharedRatingsMergedOrCleared(prev, response) ==
    IF response.kind = "data" THEN MergeRows(prev, response.data) ELSE EmptyObject

\* loadSharedRatings after its await: the collection it leaves.  An error
\* result, no data and a throw return without calling setRatings.
SharedRatingsMerged(prev, response) ==
    IF response.kind = "data" THEN MergeRows(prev, response.data) ELSE prev

\* The server answers the select issued at mount and loadSharedRatings resumes.
LoadSharedRatings ==
    /\ ratingsFetch = "pending"
    /\ \E response \in {DataResponse(remoteDB)} \cup FailedResponses :
         LET next == SharedRatingsMerged(ratings, response)
         IN /\ ratings' = next
            /\ IF response.kind = "data"
               THEN /\ ratingsFetch' = "merged"
                    /\ rendered' = [rendered EXCEPT !.ratings = SeenByClosures(@, next)]
                    /\ dirty' = dirty \cup {"ratings"}
                    /\ hist' = [Note("merge") EXCEPT !.data = response.data]
               ELSE /\ ratingsFetch' = "failed"
                    /\ UNCHANGED <<rendered, dirty>>
                    /\ hist' = Note("fetchFailed")
    /\ UNCHANGED <<download, completedCalls, completedCache, calls, selectedCallId, activeRatingTarget, mounted,
                   transcriptFetch, cache, remoteDB, inflight, budget>>

\* The answer to an upsert reaches the handler, which only logs a failure:
\* what it leaves of the collection and of the requests under way.
\* A handler that sends a failed upsert again
UpsertAnsweredWithRetry(coll, requests, req, ok) ==
    [ratings |-> coll, inflight |-> IF ok THEN requests \ {req} ELSE requests]

UpsertAnswered(coll, requests, req, ok) ==
    [ratings |-> coll, inflight |-> requests \ {req}]

\* The server answers an upsert; the handler's continuation only logs.
RemoteUpsert(req) ==
    /\ req \in inflight
    /\ \E ok \in Outcomes :
         /\ remoteDB' = IF ok THEN UpsertRow(remoteDB, req.row) ELSE remoteDB
         /\ ratings' = UpsertAnswered(ratings, inflight, req, ok).ratings
         /\ inflight' = UpsertAnswered(ratings, inflight, req, ok).inflight
         /\ budget' = Spend(budget, ok)
         /\ hist' = Note(IF ok THEN "step" ELSE "upsertFailed")
    /\ UNCHANGED <<download, completedCalls, completedCache, calls, selectedCallId, activeRatingTarget, rendered, dirty,
                   mounted, transcriptFetch, ratingsFetch, cache>>

Next ==
    \/ MountEffects
    \/ Render
    \/ TranscriptLoaded
    \/ \E id \in CallIds(Transcript) : SelectCall(id)
    \/ \E idx \in 0..1 : OpenRatingModal(idx)
    \/ CloseRatingModal
    \/ \E input \in EditInputs : HandleRatingChange(input[1], input[2])
    \/ LoadSharedRatings
    \/ \E req \in inflight : RemoteUpsert(req)

Spec == Init /\ [][Next]_vars

(***************************************************************************)
(* What localStorage may hold when the page opens: besides the slots of    *)
(* InitialSlots, text that does not parse and JSON values of every other   *)
(* type.  SpecStorage runs the session from each of them.                  *)
(***************************************************************************)
StorageSlots ==
    InitialSlots \cup
        {Slot("corrupt", EmptyObject), Slot("number", EmptyObject),
         Slot("string", EmptyObject), Slot("null", EmptyObject),
         Slot("array", "0" :> (1 :> Rated(3, 2, <<>>)))}

InitStorage ==
    /\ calls = <<>>
    /\ selectedCallId = ""
    /\ activeRatingTarget = <<>>
    /\ ratings = EmptyObject
    /\ rendered = Snapshot(EmptyObject, <<>>, "")
    /\ dirty = {}
    /\ mounted = FALSE
    /\ transcriptFetch = "idle"
    /\ ratingsFetch = "idle"
    /\ cache \in StorageSlots
    /\ remoteDB = {}
    /\ inflight = {}
    /\ budget = [edits |-> 1, failures |-> MaxFailures, toggles |-> 0]
    /\ hist = Hist("step", <<>>, NoEdit, <<>>, NoEdits, cache)
    /\ download = <<>>
    /\ completedCalls = EmptyObject
    /\ completedCache = Slot("absent", EmptyObject)

SpecStorage == InitStorage /\ [][Next]_vars

(***************************************************************************)
(* handleRatingChange on its own: the rating dialog is open on an          *)
(* Assistant turn and the handler is called with values of every kind its  *)
(* parameter admits, among them values the star buttons never pass.        *)
(***************************************************************************)
HandlerInputs ==
    EditInputs \cup
        {<<"codeSwitch", Num(9)>>, <<"sopAdherence", Num(-1)>>, <<"colloquialness", Num(0)>>,
         <<"idealResponse", Str(<<" ">>)>>, <<"idealResponse", Str(<<>>)>>}

HandlerCollections ==
    {EmptyObject, "c1" :> (1 :> Rated(3, 2, <<>>)), "c1" :> (1 :> Rated(0, 0, <<"g">>))}

InitHandler ==
    /\ calls = Transcript
    /\ selectedCallId = "c1"
    /\ activeRatingTarget = <<"c1", 1>>
    /\ ratings \in HandlerCollections
    /\ rendered = Snapshot(ratings, calls, selectedCallId)
    /\ dirty = {}
    /\ mounted = TRUE
    /\ transcriptFetch = "done"
    /\ ratingsFetch \in {"merged", "failed"}
    /\ cache = Stringify(ratings)
    /\ remoteDB = {}
    /\ inflight = {}
    /\ budget = [edits |-> MaxEdits, failures |-> MaxFailures, toggles |-> 0]
    /\ hist = Hist("step", <<>>, NoEdit, <<>>, NoEdits, cache)
    /\ download = <<>>
    /\ completedCalls = EmptyObject
    /\ completedCache = Stringify(EmptyObject)

NextHandler ==
    \/ \E input \in HandlerInputs : HandleRatingChange(input[1], input[2])
    \/ \E req \in inflight : RemoteUpsert(req)

SpecHandler == InitHandler /\ [][NextHandler]_vars

(***************************************************************************)
(* The completion flags.  A toggle writes completedCalls and its slot and  *)
(* ends, like every click, with the re-render of what is enqueued; Spec    *)
(* has that re-render as Render, and SpecCompleted adds the toggles, from  *)
(* a slot that may hold the flags of an earlier session.                   *)
(***************************************************************************)
InitialCompletedSlots ==
    {Slot("absent", EmptyObject),
     Stringify("c1" :> TRUE),
     Stringify(("c1" :> FALSE) @@ ("c9" :> TRUE))}

\* Sidebar: onClick={() => toggleCallCompleted(call.call_id)}
ToggleCallCompleted(id) ==
    /\ mounted
    /\ activeRatingTarget = <<>>        \* the dialog's overlay covers the page
    /\ id \in CallIds(rendered.calls)
    /\ budget.toggles > 0
    /\ completedCalls' = Toggled(completedCalls, id)
    /\ \E writeOk \in (IF "ratings" \in dirty THEN Outcomes ELSE {TRUE}),
          flagsOk \in Outcomes :
         /\ Commit(ratings, calls, selectedCallId, "ratings" \in dirty, writeOk,
                   completedCalls', TRUE, flagsOk)
         /\ budget' = [Spend(budget, writeOk /\ flagsOk) EXCEPT !.toggles = @ - 1]
         /\ hist' = [Note("toggle") EXCEPT
                       !.edit = [callId |-> id, wrote |-> flagsOk,
                                 was |-> IsCompleted(completedCalls, id),
                                 wasBefore |->
                                    IF hist.op = "toggle" /\ hist.edit.callId = id
                                    THEN <<hist.edit.was>> ELSE <<>>]]
    /\ UNCHANGED <<download, calls, selectedCallId, activeRatingTarget, ratings, mounted,
                   transcriptFetch, ratingsFetch, remoteDB, inflight>>

InitCompleted ==
    /\ calls = <<>>
    /\ selectedCallId = ""
    /\ activeRatingTarget = <<>>
    /\ ratings = EmptyObject
    /\ rendered = Snapshot(EmptyObject, <<>>, "")
    /\ dirty = {}
    /\ mounted = FALSE
    /\ transcriptFetch = "idle"
    /\ ratingsFetch = "idle"
    /\ cache \in InitialSlots
    /\ remoteDB \in InitialTables
    /\ inflight = {}
    /\ budget = [edits |-> 1, failures |-> MaxFailures, toggles |-> MaxToggles]
    /\ hist = Hist("step", <<>>, NoEdit, <<>>, NoEdits, cache)
    /\ download = <<>>
    /\ completedCalls = EmptyObject
    /\ completedCache \in InitialCompletedSlots

NextCompleted ==
    \/ Next
    \/ \E id \in CallIds(Transcript) : ToggleCallCompleted(id)

SpecCompleted == InitCompleted /\ [][NextCompleted]_vars

(***************************************************************************)
(* The annotated export.  The export handlers read calls and ratings and   *)
(* write no state of the component, so they are explored on their own,     *)
(* from every state of InitExport, and Spec leaves download as it is.      *)
(***************************************************************************)
\* A test that looks at the metrics only
HasAnyRatingMetricsOnly(rating) ==
    \/ Truthy(rating.codeSwitch)
    \/ Truthy(rating.colloquialness)
    \/ Truthy(rating.emotionalIntelligence)
    \/ Truthy(rating.sopAdherence)

\* A test for text that does not trim it
HasAnyRatingUntrimmed(rating) ==
    \/ Truthy(rating.codeSwitch)
    \/ Truthy(rating.colloquialness)
    \/ Truthy(rating.emotionalIntelligence)
    \/ Truthy(rating.sopAdherence)
    \/ Len(OrEmptyString(rating.idealResponse)[2]) > 0

\* hasAnyRating: a metric that is truthy, or text that is not blank
HasAnyRating(rating) ==
    \/ Truthy(rating.codeSwitch)
    \/ Truthy(rating.colloquialness)
    \/ Truthy(rating.emotionalIntelligence)
    \/ Truthy(rating.sopAdherence)
    \/ Len(Trim(OrEmptyString(rating.idealResponse)[2])) > 0

\* An annotation that appends the text to the one a turn already carries
AnnotatedTurnAppending(utt, rating) ==
    [rating_code_switch |-> OrZero(rating.codeSwitch),
     rating_colloquialness |-> OrZero(rating.colloquialness),
     rating_emotional_intelligence |-> OrZero(rating.emotionalIntelligence),
     rating_sop_adherence |-> OrZero(rating.sopAdherence),
     rating_ideal_response |->
        IF "rating_ideal_response" \in DOMAIN utt
        THEN Str(utt.rating_ideal_response[2] \o OrEmptyString(rating.idealResponse)[2])
        ELSE OrEmptyString(rating.idealResponse)] @@ utt

\* { ...utt, rating_code_switch: rating.codeSwitch || 0, ... }
AnnotatedTurn(utt, rating) ==
    [rating_code_switch |-> OrZero(rating.codeSwitch),
     rating_colloquialness |-> OrZero(rating.colloquialness),
     rating_emotional_intelligence |-> OrZero(rating.emotionalIntelligence),
     rating_sop_adherence |-> OrZero(rating.sopAdherence),
     rating_ideal_response |-> OrEmptyString(rating.idealResponse)] @@ utt

\* The callback of call.dialogue.map; idx counts from 0 as in the source
ExportTurn(utt, idx, callRatings) ==
    IF utt.author = "Assistant" /\ idx \in DOMAIN callRatings
    THEN IF HasAnyRating(callRatings[idx]) THEN AnnotatedTurn(utt, callRatings[idx])
         ELSE utt
    ELSE utt

ExportCall(call, coll) ==
    [call_id |-> call.call_id,
     dialogue |-> [k \in DOMAIN call.dialogue |->
                     ExportTurn(call.dialogue[k], k - 1, ForCall(coll, call.call_id))]]

buildAnnotatedCalls(cs, coll) == [k \in DOMAIN cs |-> ExportCall(cs[k], coll)]

\* Inputs of the export: lists of calls and rating collections
CallA == Transcript[1]

CallB ==
    [call_id |-> "c2",
     dialogue |-> <<[author |-> "Assistant", text |-> "ok"],
                    [author |-> "User", text |-> "bye"]>>]

ExportCallLists == {<<>>, <<CallA>>, <<CallA, CallB>>, <<CallB, CallA>>}

\* An empty record, blank text only, a metric only, a metric beyond the
\* scale, text only
ExportRatings ==
    {EMPTY_RATING, Rated(0, 0, <<" ">>), Rated(3, 0, <<>>),
     [EMPTY_RATING EXCEPT !.sopAdherence = Num(9)], Rated(0, 0, <<" ", "g">>)}

RatingsOver(idxs) == UNION {[d -> ExportRatings] : d \in SUBSET idxs}

ExportCollections ==
    {EmptyObject}
        \cup {"c1" :> a : a \in RatingsOver({0, 1})}
        \cup {("c1" :> a) @@ ("c2" :> b) : a \in RatingsOver({1}), b \in RatingsOver({0})}

InitExport ==
    /\ calls \in ExportCallLists
    /\ selectedCallId \in {"", "c1", "c2"}
    /\ ratings \in ExportCollections
    /\ rendered = Snapshot(ratings, calls, selectedCallId)
    /\ activeRatingTarget = <<>>
    /\ dirty = {}
    /\ mounted = TRUE
    /\ transcriptFetch = "done"
    /\ ratingsFetch = "merged"
    /\ cache = Stringify(ratings)
    /\ remoteDB = {}
    /\ inflight = {}
    /\ budget = [edits |-> 0, failures |-> 0, toggles |-> 0]
    /\ hist = Hist("step", <<>>, NoEdit, <<>>, NoEdits, cache)
    /\ download = <<>>
    /\ completedCalls \in {EmptyObject, "c1" :> TRUE}
    /\ completedCache = Stringify(completedCalls)

Shown == <<selectedCallId, activeRatingTarget, ratings, dirty, mounted,
           transcriptFetch, ratingsFetch, cache, remoteDB, inflight, budget,
           completedCalls, completedCache>>

\* An export that writes the rating fields into the turns of calls
CallsAnnotatedInPlace(cs, coll) == buildAnnotatedCalls(cs, coll)

\* calls once buildAnnotatedCalls has run: map and the spreads build new
\* arrays and objects, the calls and their turns are left as they were
CallsAfterExport(cs, coll) == cs

File(name, document) == [name |-> name, document |-> document]

\* handleExportAnnotatedTranscriptsAll; the document is what JSON.stringify
\* is handed
ExportAll ==
    /\ download' = File(<<"annotated_transcripts_all_calls.json">>,
                        buildAnnotatedCalls(rendered.calls, rendered.ratings))
    /\ calls' = CallsAfterExport(calls, rendered.ratings)
    /\ rendered' = [rendered EXCEPT !.calls = calls']
    /\ hist' = Note("exportAll")
    /\ UNCHANGED Shown

\* A single-call export that takes the call from the loaded calls
CurrentFromSource(cs, coll, id) == FindCall(cs, id)

\* const current = annotatedAll.find((c) => c.call_id === selectedCall.call_id)
Current(cs, coll, id) == FindCall(buildAnnotatedCalls(cs, coll), id)

\* handleExportAnnotatedTranscriptCurrent
ExportCurrent ==
    LET selectedCall == FindCall(rendered.calls, rendered.selectedCallId)
        current == Current(rendered.calls, rendered.ratings, selectedCall.call_id)
    IN /\ selectedCall # <<>>
       /\ current # <<>>
       /\ download' = File(<<"annotated_", selectedCall.call_id, ".json">>, current)
       /\ calls' = CallsAfterExport(calls, rendered.ratings)
       /\ rendered' = [rendered EXCEPT !.calls = calls']
       /\ hist' = Note("exportCurrent")
       /\ UNCHANGED Shown

NextExport == ExportAll \/ ExportCurrent

SpecExport == InitExport /\ [][NextExport]_vars

(***************************************************************************)
(* Properties.                                                             *)
(***************************************************************************)
JustMerged == hist.op = "merge"
JustEdited == hist.op = "edit"

\* The (call, turn, field) triples the reviewer edited in this session
Edited == DOMAIN hist.edits

Stored(callId, idx) == RatingAt(ratings, callId, idx)

\* C1 (local-edit-wins): when the remote rows are merged, every field the
\* reviewer edited before the merge still holds the value the reviewer gave
\* it, whatever the remote row carries.
C1_LocalEditWins ==
    JustMerged =>
        \A k \in Edited : Stored(k[1], k[2])[k[3]] = hist.edits[k]

\* C2 (no lost updates): after an edit, the rating stored at its (call,
\* turn) holds the value of every edit the reviewer made to a field of that
\* (call, turn), whatever was interleaved with them.
C2_NoLostUpdates ==
    JustEdited =>
        \A k \in Edited :
            (k[1] = hist.edit.callId /\ k[2] = hist.edit.idx)
                => Stored(k[1], k[2])[k[3]] = hist.edits[k]

RatingFields == METRICS \cup {"idealResponse"}

\* The column of call_ratings that carries a metric
ColumnOf(metric) ==
    CASE metric = "codeSwitch" -> "code_switch"
      [] metric = "colloquialness" -> "colloquialness"
      [] metric = "emotionalIntelligence" -> "emotional_intelligence"
      [] OTHER -> "sop_adherence"

InRange(v) == TypeOf(v) = "number" /\ v[2] \in 0..5

OutOfRange(v) == TypeOf(v) = "number" /\ v[2] \notin 0..5

\* The rows the last merge was given
MergedRowsOf == {hist.data[k] : k \in DOMAIN hist.data}

\* C3 (out-of-range remote values are never adopted): when the remote merge
\* processes a row whose value for a metric is outside 0..5, the merged
\* rating keeps the value the entry had before the merge for that metric.
C3_OutOfRangeNotAdopted ==
    JustMerged =>
        \A r \in MergedRowsOf : \A m \in METRICS :
            OutOfRange(r[ColumnOf(m)])
                => Stored(r.call_id, r.turn_index)[m]
                     = RatingAt(hist.pre.ratings, r.call_id, r.turn_index)[m]

\* The slot held a record at (callId, idx) when the page opened
CachedAtOpen(callId, idx) ==
    hist.cache0.kind = "object" /\ HasRating(hist.cache0.val, callId, idx)

\* C4 (merge precedence): when the slot held a value for a metric of (call,
\* turn), the remote row of that key carries another value, valid and in
\* range, and the reviewer did not edit that field, then the collection the
\* remote merge leaves holds the remote value.
C4_RemoteWinsOverCache ==
    JustMerged =>
        \A r \in MergedRowsOf : \A m \in METRICS :
            ( /\ CachedAtOpen(r.call_id, r.turn_index)
              /\ InRange(r[ColumnOf(m)])
              /\ r[ColumnOf(m)] # hist.cache0.val[r.call_id][r.turn_index][m]
              /\ <<r.call_id, r.turn_index, m>> \notin Edited )
                => Stored(r.call_id, r.turn_index)[m] = r[ColumnOf(m)]

\* The slot was loaded with 3 where the remote row carries 5, and 5 it is.
C4_Witness ==
    /\ JustMerged
    /\ Edited = {}
    /\ RatingAt(hist.pre.ratings, "c1", 1).codeSwitch = Num(3)
    /\ \E r \in MergedRowsOf :
         r.call_id = "c1" /\ r.turn_index = 1 /\ r.code_switch = Num(5)
    /\ Stored("c1", 1).codeSwitch = Num(5)

\* What the rating dialog reads after a render: activeRating
ActiveRating(callId, idx) == RatingAt(rendered.ratings, callId, idx)

\* C5: the rating read at (call, turn) after an edit of field f to v has f
\* equal to v and every other field equal to what the store held for it
\* immediately before the edit.
C5_EditSetsOneField ==
    JustEdited =>
        LET e == hist.edit
            now == ActiveRating(e.callId, e.idx)
        IN /\ now[e.field] = e.value
           /\ \A g \in RatingFields \ {e.field} : now[g] = e.before[g]

\* C6: when the upsert and the cache write of an edit leave, the collection
\* in memory already holds the edited value at the edited key.
C6_MemoryBeforeSideEffects ==
    JustEdited =>
        LET e == hist.edit
        IN /\ e.sawUpsert # <<>> /\ e.sawUpsert[e.field] = e.value
           /\ e.sawSave # <<>> /\ e.sawSave[e.field] = e.value

\* An edit that changed the stored value has sent both side effects.
C6_Witness ==
    /\ JustEdited
    /\ hist.edit.before[hist.edit.field] # hist.edit.value
    /\ hist.edit.sent # {}
    /\ hist.edit.sawSave # <<>>

\* C7: every edit hands setItem the entire current collection, the edit
\* included, and sends one upsert whose row is the full rating stored in
\* memory for the edited (call, turn); either leaves whatever becomes of
\* the other.
C7_BothSideEffects ==
    JustEdited =>
        LET e == hist.edit
            now == Stored(e.callId, e.idx)
        IN /\ e.saved = ratings
           /\ RatingAt(e.saved, e.callId, e.idx)[e.field] = e.value
           /\ Cardinality(e.sent) = 1
           /\ \A req \in e.sent :
                /\ req.row.call_id = e.callId
                /\ req.row.turn_index = e.idx
                /\ req.row.user_id = USER_ID
                /\ \A m \in METRICS : req.row[ColumnOf(m)] = now[m]
                /\ req.row.ideal_response = now.idealResponse

\* An edit of a rating that has text and stars, whose cache write failed.
C7_Witness ==
    /\ JustEdited
    /\ hist.edit.sent # {}
    /\ Stored(hist.edit.callId, hist.edit.idx).idealResponse = Str(<<"g">>)
    /\ Stored(hist.edit.callId, hist.edit.idx).codeSwitch # Num(0)
    /\ cache # Stringify(ratings)

\* C8: a failed upsert leaves the collection as the edit made it, is not
\* sent again, and leaves what the handlers read and the dialog as they were.
C8_FailedUpsertIsolated ==
    hist.op = "upsertFailed" =>
        /\ ratings = hist.pre.ratings
        /\ rendered = hist.pre.rendered
        /\ \E req \in hist.pre.inflight : inflight = hist.pre.inflight \ {req}

C8_Witness ==
    /\ hist.op = "upsertFailed"
    /\ Edited # {}
    /\ \A k \in Edited : Stored(k[1], k[2])[k[3]] = hist.edits[k]
    /\ activeRatingTarget # <<>>
    /\ budget.edits > 0

\* C9: a failed startup fetch leaves the collection as it was, and an edit
\* made after it is stored like any other.
C9_FailedFetchIsolated ==
    /\ hist.op = "fetchFailed" =>
          /\ ratings = hist.pre.ratings
          /\ rendered = hist.pre.rendered
    /\ (ratingsFetch = "failed" /\ JustEdited) =>
          Stored(hist.edit.callId, hist.edit.idx)[hist.edit.field] = hist.edit.value

\* The fetch fails after the slot was loaded and the reviewer has edited.
C9_Witness ==
    /\ hist.op = "fetchFailed"
    /\ Edited # {}
    /\ HasRating(ratings, "c1", 0)
    /\ activeRatingTarget # <<>>
    /\ budget.edits > 0

JustExportedAll == hist.op = "exportAll"

\* A rating that counts as none: every metric 0 and the text blank
IsEmpty(rating) ==
    /\ \A m \in METRICS : rating[m] = Num(0)
    /\ \A k \in DOMAIN rating.idealResponse[2] : rating.idealResponse[2][k] = " "

\* The turn at position i of a call is rated and its author is Assistant
Qualifies(call, i, coll) ==
    /\ call.dialogue[i + 1].author = "Assistant"
    /\ HasRating(coll, call.call_id, i)
    /\ ~IsEmpty(RatingAt(coll, call.call_id, i))

RatingFieldNames ==
    {"rating_code_switch", "rating_colloquialness", "rating_emotional_intelligence",
     "rating_sop_adherence", "rating_ideal_response"}

\* C10: the exported document has the calls of the input in their order,
\* each with its turns in their order; a turn carries the five rating
\* fields, with the stored values, exactly when its author is Assistant and
\* the collection holds a rating at its position that is not empty; every
\* other turn is its source turn.
C10_ExportMatchesReference ==
    JustExportedAll =>
        LET out == download.document
        IN /\ DOMAIN out = DOMAIN calls
           /\ \A k \in DOMAIN calls :
                /\ out[k].call_id = calls[k].call_id
                /\ DOMAIN out[k].dialogue = DOMAIN calls[k].dialogue
                /\ \A j \in DOMAIN calls[k].dialogue :
                     LET utt == calls[k].dialogue[j]
                         turn == out[k].dialogue[j]
                         rating == RatingAt(ratings, calls[k].call_id, j - 1)
                     IN IF Qualifies(calls[k], j - 1, ratings)
                        THEN /\ DOMAIN turn = DOMAIN utt \cup RatingFieldNames
                             /\ \A f \in DOMAIN utt : turn[f] = utt[f]
                             /\ turn.rating_code_switch = rating.codeSwitch
                             /\ turn.rating_colloquialness = rating.colloquialness
                             /\ turn.rating_emotional_intelligence
                                   = rating.emotionalIntelligence
                             /\ turn.rating_sop_adherence = rating.sopAdherence
                             /\ turn.rating_ideal_response = rating.idealResponse
                        ELSE turn = utt

\* Two calls exported: one Assistant turn annotated, one left as it is
\* although an all-zero record with blank text is stored for it.
C10_Witness ==
    /\ JustExportedAll
    /\ Len(calls) = 2
    /\ \E k \in DOMAIN calls : \E j \in DOMAIN calls[k].dialogue :
         /\ Qualifies(calls[k], j - 1, ratings)
         /\ download.document[k].dialogue[j] # calls[k].dialogue[j]
    /\ \E k \in DOMAIN calls : \E j \in DOMAIN calls[k].dialogue :
         /\ calls[k].dialogue[j].author = "Assistant"
         /\ HasRating(ratings, calls[k].call_id, j - 1)
         /\ IsEmpty(RatingAt(ratings, calls[k].call_id, j - 1))
         /\ download.document[k].dialogue[j] = calls[k].dialogue[j]

\* C11: buildAnnotatedCalls applied, with the same collection, to the
\* document it produced gives that document again: no rating field twice,
\* none renamed, none added.
C11_ExportIdempotent ==
    JustExportedAll =>
        buildAnnotatedCalls(download.document, ratings) = download.document

\* A document with an annotated turn that carries text, built a second time.
C11_Witness ==
    /\ JustExportedAll
    /\ \E k \in DOMAIN download.document :
         \E j \in DOMAIN download.document[k].dialogue :
            LET turn == download.document[k].dialogue[j]
            IN /\ DOMAIN turn = DOMAIN calls[k].dialogue[j] \cup RatingFieldNames
               /\ turn.rating_ideal_response # Str(<<>>)
    /\ buildAnnotatedCalls(download.document, ratings) = download.document

JustExported == hist.op \in {"exportAll", "exportCurrent"}

\* C12: an export, of all calls or of the current one, leaves the loaded
\* calls with every field of every turn, the rating collection, the
\* completion flags and both slots as they were.
C12_ExportChangesNothing ==
    JustExported =>
        /\ calls = hist.pre.calls
        /\ ratings = hist.pre.ratings
        /\ completedCalls = hist.pre.completedCalls
        /\ cache = hist.pre.cache
        /\ completedCache = hist.pre.completedCache

\* The current call exported with an annotated turn, a call being marked done.
C12_Witness ==
    /\ hist.op = "exportCurrent"
    /\ completedCalls # EmptyObject
    /\ \E j \in DOMAIN download.document.dialogue :
         "rating_code_switch" \in DOMAIN download.document.dialogue[j]
    /\ calls = hist.pre.calls

\* C13: the document of a single-call export is the entry the all-calls
\* export, built from the same calls and the same collection, has for the
\* selected call.
C13_CurrentIsEntryOfAll ==
    hist.op = "exportCurrent" =>
        \E k \in DOMAIN calls :
            /\ calls[k].call_id = selectedCallId
            /\ download.document = buildAnnotatedCalls(calls, ratings)[k]

\* The second of two calls exported on its own, with an annotated turn.
C13_Witness ==
    /\ hist.op = "exportCurrent"
    /\ Len(calls) = 2
    /\ calls[2].call_id = selectedCallId
    /\ download.document # calls[2]
    /\ download.document.call_id = selectedCallId

\* The nearest value of the scale 0..5
Clamped(v) == IF v[2] > 5 THEN Num(5) ELSE IF v[2] < 0 THEN Num(0) ELSE v

ExportTakesAsEmpty(rating) == ~HasAnyRating(rating)

\* The last edit wrote a metric other than 0
WroteMetric ==
    /\ JustEdited
    /\ hist.edit.field \in METRICS
    /\ TypeOf(hist.edit.value) = "number" /\ hist.edit.value # Num(0)

\* The last edit wrote a text of at least one character
WroteText ==
    JustEdited /\ hist.edit.field = "idealResponse" /\ hist.edit.value[2] # <<>>

\* The last edit wrote a text with a character that is not whitespace
WroteVisibleText ==
    JustEdited /\ hist.edit.field = "idealResponse" /\ Trim(hist.edit.value[2]) # <<>>

\* C15 as stated: the export takes EMPTY_RATING as empty, and takes as not
\* empty the rating an edit leaves when it wrote a metric other than 0 or a
\* text that is not empty, a text of whitespace only included.
C15_NotEmptyAfterEdit ==
    /\ ExportTakesAsEmpty(EMPTY_RATING)
    /\ (WroteMetric \/ WroteText) =>
          ~ExportTakesAsEmpty(Stored(hist.edit.callId, hist.edit.idx))

\* C15 amended: the export takes EMPTY_RATING as empty, and takes as not
\* empty the rating an edit leaves when it wrote a metric other than 0 or a
\* text that is not empty once its whitespace is trimmed.
C15_NotEmptyAfterVisibleEdit ==
    /\ ExportTakesAsEmpty(EMPTY_RATING)
    /\ (WroteMetric \/ WroteVisibleText) =>
          ~ExportTakesAsEmpty(Stored(hist.edit.callId, hist.edit.idx))

\* A text written to a rating that had nothing: the export now annotates it.
C15_Witness ==
    /\ WroteVisibleText
    /\ hist.edit.before = EMPTY_RATING
    /\ ~ExportTakesAsEmpty(Stored(hist.edit.callId, hist.edit.idx))

JustMounted == hist.op = "mount"

\* The slot holds a mapping from call id to the ratings of its turns
WellFormedMapping(slot) == slot.kind = "object"

\* C16: the load of the ratings from the slot never fails outward; it leaves
\* the empty collection when the slot is absent, does not parse or holds a
\* value that is no mapping from call id to turn ratings (a number, a
\* string, null, a list), and only a well-formed mapping becomes the
\* starting collection.
C16_LoadYieldsMappingOrEmpty ==
    JustMounted =>
        /\ mounted
        /\ ~WellFormedMapping(hist.pre.cache) => ratings = EmptyObject
        /\ WellFormedMapping(hist.pre.cache)
              => ratings \in {hist.pre.cache.val, EmptyObject}

\* C17: a cache write that fails is swallowed: the collection keeps the
\* edit that caused the write, the upsert of that edit is sent all the
\* same, the slot stays as it was, and an edit made after it is applied and
\* attempts its own write like any other.
C17_FailedCacheWriteSwallowed ==
    JustEdited =>
        LET e == hist.edit
        IN /\ e.sawSave # <<>>
           /\ Stored(e.callId, e.idx)[e.field] = e.value
           /\ Cardinality(e.sent) = 1
           /\ ~e.wrote => cache = hist.pre.cache

\* The write of one edit failed; the next edit is stored and its write
\* reaches the slot.
C17_Witness ==
    /\ JustEdited
    /\ hist.edit.prevWrote = <<FALSE>>
    /\ hist.edit.wrote
    /\ \A k \in Edited : Stored(k[1], k[2])[k[3]] = hist.edits[k]
    /\ Cardinality(Edited) = 2
    /\ cache = Stringify(ratings)

JustToggled == hist.op = "toggle"

\* C18: a toggle flips the flag of its call and of no other (a second
\* toggle of the same call brings back the flag's first truth value),
\* leaves the rating collection as it was, writes the flags to the slot of
\* their own, and sends nothing to the remote store.
C18_ToggleFlipsOneFlag ==
    JustToggled =>
        LET t == hist.edit
            before == hist.pre.completedCalls
        IN /\ IsCompleted(completedCalls, t.callId) = ~IsCompleted(before, t.callId)
           /\ t.wasBefore # <<>> => IsCompleted(completedCalls, t.callId) = t.wasBefore[1]
           /\ DOMAIN completedCalls = DOMAIN before \cup {t.callId}
           /\ \A c \in DOMAIN before \ {t.callId} : completedCalls[c] = before[c]
           /\ ratings = hist.pre.ratings
           /\ t.wrote => completedCache = Stringify(completedCalls)
           /\ cache \in {hist.pre.cache, Stringify(ratings)}
           /\ inflight = hist.pre.inflight
           /\ remoteDB = hist.pre.remoteDB

\* The second toggle of a call that was not marked done, with another
\* call's flag and ratings in place.
C18_Witness ==
    /\ JustToggled
    /\ hist.edit.wasBefore = <<FALSE>>
    /\ hist.edit.wrote
    /\ ~IsCompleted(completedCalls, hist.edit.callId)
    /\ IsCompleted(completedCalls, "c9")
    /\ ratings # EmptyObject

\* The table without the rows of other reviewers
OwnRows(db) == {r \in db : r.user_id = USER_ID}

\* C19: the rows of other reviewers have no influence on the collection (the
\* merge leaves what it would leave were the table without them), every
\* upsert of the session carries USER_ID, and no row of another reviewer is
\* written.
C19_ReviewerIsolation ==
    /\ JustMerged =>
          /\ \A r \in MergedRowsOf : r.user_id = USER_ID
          /\ ratings = SharedRatingsMerged(hist.pre.ratings,
                                           DataResponse(OwnRows(hist.pre.remoteDB)))
    /\ \A req \in inflight : req.row.user_id = USER_ID
    /\ \A r \in remoteDB \ OwnRows(remoteDB) : r \in UNION InitialTables

\* Another reviewer rated the turn this reviewer rated and has just edited:
\* the merge brings this reviewer's row only, and the upsert is under way.
C19_Witness ==
    /\ JustMerged
    /\ \E r \in remoteDB, q \in remoteDB :
         /\ r.user_id = USER_ID /\ q.user_id = OtherUser
         /\ r.call_id = q.call_id /\ r.turn_index = q.turn_index
         /\ r.code_switch # q.code_switch
         /\ Stored(r.call_id, r.turn_index).codeSwitch = r.code_switch
    /\ inflight # {}

\* C20: in every state, whatever the slot, the remote rows and the edits
\* were, every metric of every rating of the collection is an integer of
\* 0..5.
C20_MetricsInScale ==
    \A c \in DOMAIN ratings : \A i \in DOMAIN ratings[c] : \A m \in METRICS :
        InRange(ratings[c][i][m])

\* Every upsert sent so far has been answered, and nothing failed
UpsertsSettled == inflight = {} /\ budget.failures = MaxFailures

\* The row of this reviewer for (callId, idx) holds the rating
RowHolds(db, callId, idx, rating) ==
    \E r \in OwnRows(db) :
        /\ r.call_id = callId /\ r.turn_index = idx
        /\ \A m \in METRICS : r[ColumnOf(m)] = rating[m]
        /\ r.ideal_response = rating.idealResponse

\* C21 (remote convergence): once every upsert has been answered with
\* success, in whatever order, the remote row of this reviewer for each
\* edited (call, turn) holds the metrics and the text the collection holds
\* for it.
C21_RemoteConverges ==
    UpsertsSettled =>
        \A k \in Edited : RowHolds(remoteDB, k[1], k[2], Stored(k[1], k[2]))

\* The (call, turn) keys of a collection
KeysOf(coll) == {k \in (DOMAIN coll) \X (0..1) : HasRating(coll, k[1], k[2])}

\* The (call, turn) keys of the rows the last merge was given
MergedKeys == {<<r.call_id, r.turn_index>> : r \in MergedRowsOf}

\* C22: the remote merge changes only the entries the fetched data has a
\* row for: every other entry of the collection, from the slot or from an
\* edit, is after the merge what it was before, and none is added.
C22_MergeKeepsOtherEntries ==
    JustMerged =>
        /\ KeysOf(ratings) \ MergedKeys = KeysOf(hist.pre.ratings) \ MergedKeys
        /\ \A k \in KeysOf(hist.pre.ratings) \ MergedKeys :
              Stored(k[1], k[2]) = RatingAt(hist.pre.ratings, k[1], k[2])

\* Rows were merged next to entries of the slot that have no row.
C22_Witness ==
    /\ JustMerged
    /\ MergedKeys # {}
    /\ <<"c1", 0>> \in KeysOf(hist.pre.ratings) \ MergedKeys
    /\ Stored("c1", 0) = Rated(0, 0, <<"g">>)
    /\ Stored("c1", 1) # RatingAt(hist.pre.ratings, "c1", 1)

\* Startup is over: the first render's effects and the re-renders they
\* caused are done, the transcript and the select have been answered
StartupSettled ==
    /\ mounted
    /\ dirty = {}
    /\ transcriptFetch = "done"
    /\ ratingsFetch \in {"merged", "failed"}

\* The select gave no row of this reviewer, or failed
NothingFetched == ratingsFetch = "merged" => SelectRows(remoteDB, USER_ID) = {}

\* getItem and setItem have answered every call so far
StorageAnswered == budget.failures = MaxFailures

AssistantTurn(cs, callId, idx) ==
    LET call == FindCall(cs, callId)
    IN /\ call # <<>>
       /\ idx + 1 \in DOMAIN call.dialogue
       /\ call.dialogue[idx + 1].author = "Assistant"

\* C24: the target of the rating dialog is absent or an Assistant turn of a
\* loaded call, and an edit creates or changes the rating of that turn and
\* of no other: no entry at a User turn or at a call that was not loaded is
\* made or changed by it.
C24_EditsOnlyAssistantTurns ==
    /\ activeRatingTarget # <<>>
          => AssistantTurn(calls, activeRatingTarget[1], activeRatingTarget[2])
    /\ JustEdited =>
          /\ AssistantTurn(calls, hist.edit.callId, hist.edit.idx)
          /\ \A k \in KeysOf(ratings) \cup KeysOf(hist.pre.ratings) :
                ~AssistantTurn(calls, k[1], k[2])
                   => /\ k \in KeysOf(ratings) \cap KeysOf(hist.pre.ratings)
                      /\ Stored(k[1], k[2]) = RatingAt(hist.pre.ratings, k[1], k[2])

\* An edit was made while the collection held, from the slot and from the
\* remote rows, an entry at a User turn and one at a call that is not loaded.
C24_Witness ==
    /\ JustEdited
    /\ activeRatingTarget = <<"c1", 1>>
    /\ Stored("c1", 1) # RatingAt(hist.pre.ratings, "c1", 1)
    /\ HasRating(ratings, "c1", 0)
    /\ HasRating(ratings, "c3", 0)
    /\ ~AssistantTurn(calls, "c1", 0)
    /\ ~AssistantTurn(calls, "c3", 0)

====
